---- MODULE Spec2Model ----
(***************************************************************************)
(* Model of tichu-rs: the Card model (src/src/card.rs), the Hand           *)
(* classifier and comparator (src/src/hand.rs, and its older copy in       *)
(* src/src/main.rs) and the Deck (src/src/game.rs).                        *)
(*                                                                         *)
(* A Card is a number:                                                     *)
(*   SpecialCard(t)    = t           t the SpecialCardType discriminant    *)
(*   RegularCard(v, s) = 4 * v + s   v in 2..14, s the suite discriminant  *)
(* so that the special cards (0..3) come before the regular cards (8..59), *)
(* which are ordered by value and then by suite: the order of the numbers  *)
(* is the order that #[derive(PartialOrd, Ord)] gives the enum Card.       *)
(* An Option<T> is a sequence of length at most one: None = <<>>,          *)
(* Some(x) = <<x>>.  A panic is modelled by a separate predicate           *)
(* f_panics(args) next to the operator f(args) that gives the value f      *)
(* returns when it does not panic.                                         *)
(***************************************************************************)
EXTENDS Integers, Sequences, FiniteSets, TLC

VARIABLES cards, hand, other, selfCard, otherCard, deck, dealt,
          pc, returned, panicked

vars == <<cards, hand, other, selfCard, otherCard, deck, dealt,
          pc, returned, panicked>>

\* the last call made, <<method, value>>: the method's name and the value
\* it returned ("panic" when it panicked)
call == returned[1]

result == returned[2]

-----------------------------------------------------------------------------
(* card.rs: the enumerations *)

Two == 2
Three == 3
Four == 4
Five == 5
Six == 6
Seven == 7
Ace == 14

Heart == 0
Diamond == 1
Spade == 2
Clubs == 3

Dragon == 0
Phoenix == 1
One == 2
Dog == 3

NumSuites == 4

SpecialCard(type) == type
RegularCard(v, s) == NumSuites * v + s

IsRegular(card) == card >= RegularCard(Two, Heart)

\* the fields of RegularCard(value, suite)
ValueOf(card) == card \div NumSuites
SuiteOf(card) == card % NumSuites

RegularCardValue == Two..Ace
RegularCardSuite == {Heart, Diamond, Spade, Clubs}
SpecialCardType == {Dragon, Phoenix, One, Dog}

\* all::<Card>(): every card of the game, 4 special and 52 regular cards
AllCards ==
    {SpecialCard(t) : t \in SpecialCardType}
        \cup {RegularCard(v, s) : v \in RegularCardValue, s \in RegularCardSuite}

\* derive(PartialOrd, Ord) on Card: variant first, then the fields in order
CardLess(a, b) ==
    IF IsRegular(a) /\ IsRegular(b)
    THEN \/ ValueOf(a) < ValueOf(b)
         \/ ValueOf(a) = ValueOf(b) /\ SuiteOf(a) < SuiteOf(b)
    ELSE IF ~ IsRegular(a) /\ ~ IsRegular(b) THEN a < b
    ELSE ~ IsRegular(a)

None == <<>>
Some(x) == <<x>>

\* a mutation: the Dog is taken for a card of multi-card hands
is_valid_in_multi_card_hand_dog(card) ==
    IF IsRegular(card) THEN TRUE
    ELSE IF card = SpecialCard(Phoenix) THEN TRUE
    ELSE IF card = SpecialCard(One) THEN TRUE
    ELSE IF card = SpecialCard(Dog) THEN TRUE
    ELSE FALSE

is_valid_in_multi_card_hand(card) ==
    IF IsRegular(card) THEN TRUE
    ELSE IF card = SpecialCard(Phoenix) THEN TRUE
    ELSE IF card = SpecialCard(One) THEN TRUE
    ELSE FALSE

value(card) == IF IsRegular(card) THEN Some(ValueOf(card)) ELSE None

numeric_value(card) ==
    IF card = SpecialCard(One) THEN Some(1)
    ELSE IF IsRegular(card) THEN Some(ValueOf(card))
    ELSE None

suite(card) == IF IsRegular(card) THEN Some(SuiteOf(card)) ELSE None

-----------------------------------------------------------------------------
(* hand.rs *)

\* util::iter_all_equal(iter).is_some(): the iterator is not empty and every
\* element equals the first
iter_all_equal_is_some(seq) ==
    /\ Len(seq) > 0
    /\ \A i \in 1..Len(seq) : seq[i] = seq[1]

RECURSIVE SortedSeq(_)
SortedSeq(S) ==
    IF S = {} THEN <<>>
    ELSE LET least == CHOOSE c \in S : \A d \in S \ {c} : CardLess(c, d)
         IN  <<least>> \o SortedSeq(S \ {least})

\* Hand::new(cards): cards.sort_unstable(); the cards given are distinct, so
\* the sorted vector is determined by the set of the cards
HandNew(cs) == SortedSeq(cs)

num_phoenices(h) == Cardinality({i \in 1..Len(h) : h[i] = SpecialCard(Phoenix)})

is_valid_quadruple_bomb(h) ==
    /\ Len(h) = 4
    /\ \A i \in 1..4 : IsRegular(h[i])
    /\ iter_all_equal_is_some([i \in 1..Len(h) |-> value(h[i])])

is_valid_single_card(h) == Len(h) = 1

is_valid_pair(h) ==
    /\ Len(h) = 2
    /\ \/ /\ IsRegular(h[1]) /\ IsRegular(h[2])
          /\ iter_all_equal_is_some([i \in 1..Len(h) |-> value(h[i])])
       \/ /\ h[1] = SpecialCard(Phoenix) /\ IsRegular(h[2])

is_valid_triple(h) ==
    /\ Len(h) = 3
    /\ \/ /\ IsRegular(h[1]) /\ IsRegular(h[2]) /\ IsRegular(h[3])
          /\ ValueOf(h[1]) = ValueOf(h[2]) /\ ValueOf(h[2]) = ValueOf(h[3])
       \/ /\ h[1] = SpecialCard(Phoenix) /\ IsRegular(h[2]) /\ IsRegular(h[3])
          /\ ValueOf(h[2]) = ValueOf(h[3])

\* the windows(2) of the hand in which both cards have a numeric value
NumericWindows(h) ==
    {i \in 1..(Len(h) - 1) :
        numeric_value(h[i]) # None /\ numeric_value(h[i + 1]) # None}

RECURSIVE SumOver(_, _)
SumOver(S, f) ==
    IF S = {} THEN 0
    ELSE LET x == CHOOSE y \in S : TRUE IN f[x] + SumOver(S \ {x}, f)

\* value2 - value1 - 1 on usize: an overflow when value2 <= value1
is_valid_straight_panics(h) ==
    /\ ~ \E i \in NumericWindows(h) : numeric_value(h[i]) = numeric_value(h[i + 1])
    /\ \E i \in NumericWindows(h) :
          numeric_value(h[i + 1])[1] - numeric_value(h[i])[1] - 1 < 0

\* a mutation: the gaps are not held against the number of Phoenixes
is_valid_straight_any_gap(h) ==
    IF \E i \in NumericWindows(h) : numeric_value(h[i]) = numeric_value(h[i + 1])
    THEN FALSE
    ELSE Len(h) >= 5

is_valid_straight(h) ==
    IF \E i \in NumericWindows(h) : numeric_value(h[i]) = numeric_value(h[i + 1])
    THEN FALSE
    ELSE LET num_phoenices_needed ==
                 SumOver(NumericWindows(h),
                         [i \in NumericWindows(h) |->
                            numeric_value(h[i + 1])[1] - numeric_value(h[i])[1] - 1])
         IN  Len(h) >= 5 /\ num_phoenices(h) >= num_phoenices_needed

is_valid_straight_bomb_panics(h) == is_valid_straight_panics(h)

is_valid_straight_bomb(h) ==
    /\ is_valid_straight(h)
    /\ num_phoenices(h) = 0
    /\ iter_all_equal_is_some([i \in 1..Len(h) |-> suite(h[i])])

NUM_CARDS == 2

\* the length of the chunk of chunk_by(numeric_value) that starts at index i
ChunkLen(h, i) ==
    Cardinality({j \in i..Len(h) :
                    \A k \in i..j : numeric_value(h[k]) = numeric_value(h[i])})

\* the indices at which a chunk with key Some(v) and at most NUM_CARDS cards
\* starts: the chunks that filter and filter_map let through
ChunkStarts(h, v) ==
    {i \in 1..Len(h) :
        /\ numeric_value(h[i]) = Some(v)
        /\ (i = 1 \/ numeric_value(h[i - 1]) # Some(v))
        /\ ~ (ChunkLen(h, i) > NUM_CARDS)}

\* num_cards_by_value.get(&Some(v)).unwrap_or(&0): the HashMap keeps the last
\* chunk collected for a key
num_cards_for_value(h, v) ==
    IF ChunkStarts(h, v) = {} THEN 0
    ELSE LET last == CHOOSE i \in ChunkStarts(h, v) :
                         \A j \in ChunkStarts(h, v) : j <= i
         IN  ChunkLen(h, last)

\* first_value: the first numeric value of the hand, if any
first_value(h) ==
    LET numeric == {i \in 1..Len(h) : numeric_value(h[i]) # None}
    IN  IF numeric = {} THEN None
        ELSE numeric_value(h[CHOOSE i \in numeric : \A j \in numeric : i <= j])

\* last_value: map(|card| card.numeric_value().unwrap()).next_back() unwraps
\* the numeric value of the last card
is_valid_straight_of_pairs_panics(h) ==
    Len(h) > 0 /\ numeric_value(h[Len(h)]) = None

is_valid_straight_of_pairs(h) ==
    IF first_value(h) = None THEN FALSE
    ELSE IF Len(h) = 0 THEN FALSE
    ELSE LET first == first_value(h)[1]
             last == numeric_value(h[Len(h)])[1]
             num_phoenices_needed ==
                 SumOver(first..last,
                         [v \in first..last |-> NUM_CARDS - num_cards_for_value(h, v)])
         IN  IF \E v \in first..last : num_cards_for_value(h, v) > NUM_CARDS
             THEN FALSE
             ELSE num_phoenices(h) >= num_phoenices_needed

is_valid_full_house(h) ==
    /\ Len(h) = 5
    /\ \/ /\ \A i \in 1..5 : IsRegular(h[i])
          /\ ValueOf(h[1]) = ValueOf(h[2])
          /\ ValueOf(h[4]) = ValueOf(h[5])
          /\ (ValueOf(h[3]) = ValueOf(h[2]) \/ ValueOf(h[3]) = ValueOf(h[4]))
       \/ /\ h[1] = SpecialCard(Phoenix)
          /\ \A i \in 2..5 : IsRegular(h[i])
          /\ \/ ValueOf(h[2]) = ValueOf(h[3]) /\ ValueOf(h[3]) = ValueOf(h[4])
             \/ ValueOf(h[2]) = ValueOf(h[3]) /\ ValueOf(h[4]) = ValueOf(h[5])
             \/ ValueOf(h[3]) = ValueOf(h[4]) /\ ValueOf(h[4]) = ValueOf(h[5])
          /\ ValueOf(h[2]) # ValueOf(h[5])

\* the guard of hand_type: a hand of more than one card with a Dragon or Dog
MultiCardInvalid(h) ==
    Len(h) > 1 /\ ~ \A i \in 1..Len(h) : is_valid_in_multi_card_hand(h[i])

hand_type_panics(h) ==
    /\ ~ MultiCardInvalid(h)
    /\ ~ is_valid_quadruple_bomb(h)
    /\ \/ is_valid_straight_bomb_panics(h)
       \/ /\ ~ is_valid_straight_bomb(h)
          /\ ~ is_valid_single_card(h)
          /\ ~ is_valid_pair(h)
          /\ ~ is_valid_triple(h)
          /\ \/ is_valid_straight_panics(h)
             \/ /\ ~ is_valid_straight(h)
                /\ is_valid_straight_of_pairs_panics(h)

\* a mutation: the plain shapes are tested before the bombs
hand_type_bombs_last(h) ==
    IF MultiCardInvalid(h) THEN None
    ELSE IF is_valid_single_card(h) THEN Some("SingleCard")
    ELSE IF is_valid_pair(h) THEN Some("Pair")
    ELSE IF is_valid_triple(h) THEN Some("Triple")
    ELSE IF is_valid_straight(h) THEN Some("Straight")
    ELSE IF is_valid_straight_of_pairs(h) THEN Some("StraightOfPairs")
    ELSE IF is_valid_full_house(h) THEN Some("FullHouse")
    ELSE IF is_valid_quadruple_bomb(h) THEN Some("QuadrupleBomb")
    ELSE IF is_valid_straight_bomb(h) THEN Some("StraightBomb")
    ELSE None

hand_type(h) ==
    IF MultiCardInvalid(h) THEN None
    ELSE IF is_valid_quadruple_bomb(h) THEN Some("QuadrupleBomb")
    ELSE IF is_valid_straight_bomb(h) THEN Some("StraightBomb")
    ELSE IF is_valid_single_card(h) THEN Some("SingleCard")
    ELSE IF is_valid_pair(h) THEN Some("Pair")
    ELSE IF is_valid_triple(h) THEN Some("Triple")
    ELSE IF is_valid_straight(h) THEN Some("Straight")
    ELSE IF is_valid_straight_of_pairs(h) THEN Some("StraightOfPairs")
    ELSE IF is_valid_full_house(h) THEN Some("FullHouse")
    ELSE None

\* a mutation: index 2 is read whatever the first card of the full house is
relevant_card_index_2(h) ==
    IF hand_type(h) = Some("FullHouse")
    THEN IF IsRegular(h[1]) THEN Some(h[3])
         ELSE IF h[1] = SpecialCard(Phoenix) THEN Some(h[3])
         ELSE None
    ELSE IF Len(h) = 0 THEN None ELSE Some(h[Len(h)])

\* a mutation: the last card is read whatever the hand_type() is
relevant_card_last(h) ==
    IF Len(h) = 0 THEN None ELSE Some(h[Len(h)])

\* the card whose value relevant_card_value reads, as Some(card); None when
\* picking it panics (next_back().unwrap() on no card, or a full house that
\* starts with neither a regular card nor the Phoenix)
relevant_card(h) ==
    IF hand_type(h) = Some("FullHouse")
    THEN IF IsRegular(h[1]) THEN Some(h[3])
         ELSE IF h[1] = SpecialCard(Phoenix) THEN Some(h[4])
         ELSE None
    ELSE IF Len(h) = 0 THEN None ELSE Some(h[Len(h)])

relevant_card_value_panics(h) ==
    \/ hand_type_panics(h)
    \/ /\ hand_type(h) # None
       /\ \/ relevant_card(h) = None
          \/ ~ IsRegular(relevant_card(h)[1])

relevant_card_value(h) ==
    IF hand_type(h) = None THEN None
    ELSE value(relevant_card(h)[1])

-----------------------------------------------------------------------------
(* Classification of one hand: a vector of distinct cards is assembled, *)
(* Hand::new sorts it, and one method of Hand is called on the hand.    *)

\* the cards the hands are drawn from: every special card, the regular
\* cards of the values Two..Four in the four suites and the Hearts up to
\* HandMaxValue
HandMaxValue == 4
HandMaxLen == 5

HandCards ==
    {SpecialCard(t) : t \in SpecialCardType}
        \cup {RegularCard(v, s) : v \in Two..Four, s \in RegularCardSuite}
        \cup {RegularCard(v, Heart) : v \in Two..HandMaxValue}

\* vec![..., card]: one more card of U in the vector, of at most n cards
Push(U, n, card) ==
    /\ pc = "cards"
    /\ card \in U \ cards
    /\ Cardinality(cards) < n
    /\ cards' = cards \cup {card}
    /\ UNCHANGED <<hand, other, selfCard, otherCard, deck, dealt,
                   pc, returned, panicked>>

New ==
    /\ pc = "cards"
    /\ hand' = HandNew(cards)
    /\ pc' = "hand"
    /\ UNCHANGED <<cards, other, selfCard, otherCard, deck, dealt,
                   returned, panicked>>

\* hand.method(): the call panics, or returns the value
Returns(method, panics, val) ==
    /\ pc = "hand"
    /\ pc' = "returned"
    /\ panicked' = panics
    /\ returned' = <<method, IF panics THEN "panic" ELSE val>>
    /\ UNCHANGED <<cards, hand, other, selfCard, otherCard, deck, dealt>>

HandTypeCall ==
    Returns("hand_type", hand_type_panics(hand), hand_type(hand))

RelevantCardValueCall ==
    Returns("relevant_card_value", relevant_card_value_panics(hand),
            relevant_card_value(hand))

IsValidQuadrupleBombCall ==
    Returns("is_valid_quadruple_bomb", FALSE, is_valid_quadruple_bomb(hand))

IsValidStraightBombCall ==
    Returns("is_valid_straight_bomb", is_valid_straight_bomb_panics(hand),
            is_valid_straight_bomb(hand))

IsValidSingleCardCall ==
    Returns("is_valid_single_card", FALSE, is_valid_single_card(hand))

IsValidPairCall == Returns("is_valid_pair", FALSE, is_valid_pair(hand))

IsValidTripleCall == Returns("is_valid_triple", FALSE, is_valid_triple(hand))

IsValidStraightCall ==
    Returns("is_valid_straight", is_valid_straight_panics(hand),
            is_valid_straight(hand))

IsValidStraightOfPairsCall ==
    Returns("is_valid_straight_of_pairs", is_valid_straight_of_pairs_panics(hand),
            is_valid_straight_of_pairs(hand))

IsValidFullHouseCall ==
    Returns("is_valid_full_house", FALSE, is_valid_full_house(hand))

MethodCall ==
    \/ HandTypeCall
    \/ RelevantCardValueCall
    \/ IsValidQuadrupleBombCall
    \/ IsValidStraightBombCall
    \/ IsValidSingleCardCall
    \/ IsValidPairCall
    \/ IsValidTripleCall
    \/ IsValidStraightCall
    \/ IsValidStraightOfPairsCall
    \/ IsValidFullHouseCall

InitHand ==
    /\ cards = {}
    /\ hand = <<>>
    /\ other = <<>>
    /\ selfCard = <<>>
    /\ otherCard = <<>>
    /\ deck = <<>>
    /\ dealt = <<>>
    /\ pc = "cards"
    /\ returned = <<"", "">>
    /\ panicked = FALSE

PushHand == \E card \in HandCards : Push(HandCards, HandMaxLen, card)

NextHand == PushHand \/ New \/ MethodCall

SpecHand == InitHand /\ [][NextHand]_vars

-----------------------------------------------------------------------------
(* Classification of straights: the same steps over the cards of two suites. *)

StraightMaxValue == 7
StraightMaxLen == 5

\* the cards the straights are drawn from: the Phoenix, the One and the
\* regular cards of the values Two..StraightMaxValue in two suites
StraightCards ==
    {SpecialCard(Phoenix), SpecialCard(One)}
        \cup {RegularCard(v, s) : v \in Two..StraightMaxValue, s \in {Heart, Diamond}}

PushStraight == \E card \in StraightCards : Push(StraightCards, StraightMaxLen, card)

NextStraight == PushStraight \/ New \/ MethodCall

SpecStraight == InitHand /\ [][NextStraight]_vars

-----------------------------------------------------------------------------
(* Comparison of two hands: self and other are built by Hand::new and *)
(* self.can_be_played_on(&other) is called.                            *)

CmpMaxValue == 7
CmpMaxLen == 5

\* the cards the two hands are drawn from: the Hearts Two..CmpMaxValue, the
\* four Twos and the Phoenix
CmpCards ==
    {RegularCard(v, Heart) : v \in Two..CmpMaxValue}
        \cup {RegularCard(Two, s) : s \in RegularCardSuite}
        \cup {SpecialCard(Phoenix)}

CmpCardSets == {cs \in SUBSET CmpCards : Cardinality(cs) <= CmpMaxLen}

CmpHands == {HandNew(cs) : cs \in CmpCardSets}

\* hand_type() and relevant_card_value() of every hand that is compared,
\* evaluated once per hand: <<hand_type panics, hand_type,
\* relevant_card_value panics, relevant_card_value>>
Classified ==
    [h \in CmpHands |->
        <<hand_type_panics(h),
          IF hand_type_panics(h) THEN None ELSE hand_type(h),
          relevant_card_value_panics(h),
          IF relevant_card_value_panics(h) THEN None ELSE relevant_card_value(h)>>]

\* is_bomb: the match on the result of self.hand_type()
is_bomb_of(type) == type = Some("StraightBomb") \/ type = Some("QuadrupleBomb")

is_bomb_panics(h) == Classified[h][1]

is_bomb(h) == is_bomb_of(Classified[h][2])

\* higher_value_than: zip, map and unwrap_or on the two relevant_card_value()s
higher_value_than_of(self_value, other_value) ==
    IF self_value # None /\ other_value # None
    THEN self_value[1] > other_value[1]
    ELSE FALSE

higher_value_than_panics(h, o) == Classified[h][3] \/ Classified[o][3]

higher_value_than(h, o) == higher_value_than_of(Classified[h][4], Classified[o][4])

\* can_be_played_on, with self = h and other = o; s and t are what
\* hand_type() and relevant_card_value() give for self and for other
can_be_played_on_panics(h, o) ==
    LET s == Classified[h]
        t == Classified[o]
    IN  \/ s[1]
        \/ IF is_bomb_of(s[2])
           THEN \/ t[1]
                \/ /\ is_bomb_of(t[2])
                   /\ ~ (Len(h) > Len(o))
                   /\ Len(h) = Len(o)
                   /\ (s[3] \/ t[3])
           ELSE \/ t[1]
                \/ /\ s[2] = t[2]
                   /\ Len(h) = Len(o)
                   /\ (s[3] \/ t[3])

\* a mutation: a bomb of the same length beats a bomb whatever the values
can_be_played_on_length_only(h, o) ==
    LET s == Classified[h]
        t == Classified[o]
    IN  IF is_bomb_of(s[2])
        THEN IF is_bomb_of(t[2])
             THEN Len(h) >= Len(o)
             ELSE TRUE
        ELSE /\ s[2] = t[2]
             /\ Len(h) = Len(o)
             /\ higher_value_than_of(s[4], t[4])

can_be_played_on(h, o) ==
    LET s == Classified[h]
        t == Classified[o]
    IN  IF is_bomb_of(s[2])
        THEN IF is_bomb_of(t[2])
             THEN \/ Len(h) > Len(o)
                  \/ (Len(h) = Len(o) /\ higher_value_than_of(s[4], t[4]))
             ELSE TRUE
        ELSE /\ s[2] = t[2]
             /\ Len(h) = Len(o)
             /\ higher_value_than_of(s[4], t[4])

InitCmp ==
    /\ cards = {}
    /\ hand \in CmpHands
    /\ other = <<>>
    /\ selfCard = <<>>
    /\ otherCard = <<>>
    /\ deck = <<>>
    /\ dealt = <<>>
    /\ pc = "hand"
    /\ returned = <<"", "">>
    /\ panicked = FALSE

CanBePlayedOnCall(o) ==
    /\ pc = "hand"
    /\ pc' = "returned"
    /\ other' = o
    /\ LET panics == can_be_played_on_panics(hand, o)
       IN  /\ panicked' = panics
           /\ returned' = <<"can_be_played_on",
                            IF panics THEN "panic" ELSE can_be_played_on(hand, o)>>
    /\ UNCHANGED <<cards, hand, selfCard, otherCard, deck, dealt>>

NextCmp == pc = "hand" /\ \E o \in CmpHands : CanBePlayedOnCall(o)

SpecCmp == InitCmp /\ [][NextCmp]_vars

-----------------------------------------------------------------------------
(* main.rs: the older copy of the comparator, called on the same two hands. *)
(* Its hand_type(), relevant_card_value(), is_bomb() and                     *)
(* higher_value_than() are those of hand.rs line for line.                   *)

main_can_be_played_on_panics(h, o) ==
    LET s == Classified[h]
        t == Classified[o]
    IN  \/ s[1]
        \/ IF is_bomb_of(s[2])
           THEN \/ t[1]
                \/ /\ is_bomb_of(t[2])
                   /\ ~ (Len(h) > Len(o))
                   /\ Len(h) = Len(o)
                   /\ (s[3] \/ t[3])
           ELSE /\ Len(h) = Len(o)
                /\ (s[3] \/ t[3])

main_can_be_played_on(h, o) ==
    LET s == Classified[h]
        t == Classified[o]
    IN  IF is_bomb_of(s[2])
        THEN IF is_bomb_of(t[2])
             THEN \/ Len(h) > Len(o)
                  \/ (Len(h) = Len(o) /\ higher_value_than_of(s[4], t[4]))
             ELSE TRUE
        ELSE /\ Len(h) = Len(o)
             /\ higher_value_than_of(s[4], t[4])

MainCanBePlayedOnCall(o) ==
    /\ pc = "hand"
    /\ pc' = "returned"
    /\ other' = o
    /\ LET panics == main_can_be_played_on_panics(hand, o)
       IN  /\ panicked' = panics
           /\ returned' = <<"main::can_be_played_on",
                            IF panics THEN "panic" ELSE main_can_be_played_on(hand, o)>>
    /\ UNCHANGED <<cards, hand, selfCard, otherCard, deck, dealt>>

NextMain == pc = "hand" /\ \E o \in CmpHands : MainCanBePlayedOnCall(o)

SpecMain == InitCmp /\ [][NextMain]_vars

-----------------------------------------------------------------------------
(* card.rs: the single-card relation, called on two cards *)

\* the arm of the match (self, other) that is taken, 1..12 in source order;
\* arm 11 is the reverse comparison and arm 12 the panic
MatchArm(a, b) ==
    IF IsRegular(a) /\ IsRegular(b) THEN 1
    ELSE IF a = SpecialCard(Dragon) THEN 2
    ELSE IF a = SpecialCard(Phoenix) /\ IsRegular(b) THEN 3
    ELSE IF IsRegular(a) /\ b = SpecialCard(Phoenix) THEN 4
    ELSE IF a = SpecialCard(Phoenix) /\ b = SpecialCard(One) THEN 5
    ELSE IF a = SpecialCard(Phoenix) /\ b = SpecialCard(Dog) THEN 6
    ELSE IF a = SpecialCard(Phoenix) /\ b = SpecialCard(Dragon) THEN 7
    ELSE IF a = SpecialCard(One) /\ b = SpecialCard(Dog) THEN 8
    ELSE IF a = SpecialCard(One) THEN 9
    ELSE IF a = SpecialCard(Dog) THEN 10
    ELSE IF IsRegular(a) THEN 11
    ELSE 12

RECURSIVE can_be_played_on_top_of_single_card_panics(_, _)
can_be_played_on_top_of_single_card_panics(a, b) ==
    \/ MatchArm(a, b) = 12
    \/ MatchArm(a, b) = 11 /\ can_be_played_on_top_of_single_card_panics(b, a)

RECURSIVE can_be_played_on_top_of_single_card(_, _)
can_be_played_on_top_of_single_card(a, b) ==
    CASE MatchArm(a, b) = 1 -> ValueOf(a) > ValueOf(b)
      [] MatchArm(a, b) \in {2, 3, 4, 5, 6, 8} -> TRUE
      [] MatchArm(a, b) \in {7, 9, 10} -> FALSE
      [] MatchArm(a, b) = 11 -> ~ can_be_played_on_top_of_single_card(b, a)

InitCard ==
    /\ cards = {}
    /\ hand = <<>>
    /\ other = <<>>
    /\ selfCard \in AllCards
    /\ otherCard \in AllCards
    /\ deck = <<>>
    /\ dealt = <<>>
    /\ pc = "cards"
    /\ returned = <<"", "">>
    /\ panicked = FALSE

CanBePlayedOnTopOfSingleCardCall ==
    /\ pc = "cards"
    /\ pc' = "returned"
    /\ LET panics == can_be_played_on_top_of_single_card_panics(selfCard, otherCard)
       IN  /\ panicked' = panics
           /\ returned' = <<"can_be_played_on_top_of_single_card",
                            IF panics THEN "panic"
                            ELSE can_be_played_on_top_of_single_card(selfCard, otherCard)>>
    /\ UNCHANGED <<cards, hand, other, selfCard, otherCard, deck, dealt>>

NextCard == CanBePlayedOnTopOfSingleCardCall

SpecCard == InitCard /\ [][NextCard]_vars

-----------------------------------------------------------------------------
(* game.rs: the Deck *)

NUM_CARDS_PER_PLAYER == 14
NUM_PLAYERS == 4

\* all::<Card>().collect(): the cards in the order of the enumeration
AllCardsVec == SortedSeq(AllCards)

\* the random source given to Deck::new: a linear congruential generator,
\* seeded with one of the seeds 0..MaxSeed
MaxSeed == 149

RngNext(x) == (25173 * x + 13849) % 65536

\* the index that shuffle draws for position i (0-based), in 0..=i
RngIndex(x, i) == (x \div 16) % (i + 1)

Swap(v, i, j) == [v EXCEPT ![i] = v[j], ![j] = v[i]]

\* slice.shuffle(rng): for i in (1..len).rev(), swap(i, an index in 0..=i);
\* v is indexed from 1, so position i is v[i + 1]
RECURSIVE Shuffle(_, _, _)
Shuffle(v, i, x) ==
    IF i < 1 THEN v
    ELSE Shuffle(Swap(v, i + 1, RngIndex(RngNext(x), i) + 1), i - 1, RngNext(x))

DeckNew(seed) == Shuffle(AllCardsVec, Len(AllCardsVec) - 1, seed)

\* self.0.len() - NUM_CARDS_PER_PLAYER on usize overflows (or split_off is
\* out of bounds) when the deck holds fewer cards than a player is dealt
deal_panics(d) == Len(d) < NUM_CARDS_PER_PLAYER

\* split_off(at): the deck keeps [0, at), the cards [at, len) are returned
deal_rest(d) == SubSeq(d, 1, Len(d) - NUM_CARDS_PER_PLAYER)

\* a mutation: the hand that is split off is returned as it lies in the deck
deal_hand_unsorted(d) == SubSeq(d, Len(d) - NUM_CARDS_PER_PLAYER + 1, Len(d))

\* cards.sort_unstable(); PlayerHand(cards)
deal_hand(d) ==
    SortSeq(SubSeq(d, Len(d) - NUM_CARDS_PER_PLAYER + 1, Len(d)), CardLess)

InitDeck ==
    /\ cards = {}
    /\ hand = <<>>
    /\ other = <<>>
    /\ selfCard = <<>>
    /\ otherCard = <<>>
    /\ deck \in {DeckNew(seed) : seed \in 0..MaxSeed}
    /\ dealt = <<>>
    /\ pc = "deck"
    /\ returned = <<"", "">>
    /\ panicked = FALSE

\* a mutation: the subtraction saturates at 0, and deal() on a deck of fewer
\* than 14 cards returns the cards that are left
Deal_saturating ==
    /\ pc = "deck"
    /\ LET at == IF Len(deck) < NUM_CARDS_PER_PLAYER THEN 0
                 ELSE Len(deck) - NUM_CARDS_PER_PLAYER
           cs == SortSeq(SubSeq(deck, at + 1, Len(deck)), CardLess)
       IN  /\ panicked' = FALSE
           /\ pc' = IF Len(dealt) < NUM_PLAYERS THEN "deck" ELSE "done"
           /\ returned' = <<"deal", cs>>
           /\ dealt' = Append(dealt, cs)
           /\ deck' = SubSeq(deck, 1, at)
    /\ UNCHANGED <<cards, hand, other, selfCard, otherCard>>

\* deck.deal(): the call panics and leaves the deck alone, or returns the
\* PlayerHand, here appended to the hands dealt so far
Deal ==
    /\ pc = "deck"
    /\ IF deal_panics(deck)
       THEN /\ panicked' = TRUE
            /\ pc' = "panicked"
            /\ returned' = <<"deal", "panic">>
            /\ UNCHANGED <<deck, dealt>>
       ELSE /\ panicked' = FALSE
            /\ pc' = "deck"
            /\ returned' = <<"deal", deal_hand(deck)>>
            /\ dealt' = Append(dealt, deal_hand(deck))
            /\ deck' = deal_rest(deck)
    /\ UNCHANGED <<cards, hand, other, selfCard, otherCard>>

NextDeck == Deal

SpecDeck == InitDeck /\ [][NextDeck]_vars

-----------------------------------------------------------------------------
(* The claims *)

Returned(method) == pc = "returned" /\ call = method

\* C1: a hand whose hand_type() is QuadrupleBomb or StraightBomb can be played
\* on every hand that is not a bomb, and on a bomb exactly when it has more
\* cards, or as many cards and a strictly higher relevant_card_value.
\* Checked under SpecCmp.
C1_BombDominance ==
    (Returned("can_be_played_on") /\ ~ is_bomb_panics(hand) /\ is_bomb(hand)) =>
        /\ ~ panicked
        /\ ~ is_bomb_panics(other)
        /\ ~ is_bomb(other) => result = TRUE
        /\ is_bomb(other) =>
              /\ Classified[hand][4] # None
              /\ Classified[other][4] # None
              /\ result = TRUE <=>
                    \/ Len(hand) > Len(other)
                    \/ /\ Len(hand) = Len(other)
                       /\ Classified[hand][4][1] > Classified[other][4][1]

\* C1, its case: a bomb played on another bomb of the same length and a lower
\* value
C1_Witness ==
    /\ Returned("can_be_played_on")
    /\ is_bomb(hand)
    /\ is_bomb(other)
    /\ Len(hand) = Len(other)
    /\ hand # other
    /\ result = TRUE

\* C2: a hand that is not a bomb can be played on another hand exactly when
\* the two have the same hand_type(), the same number of cards and the first
\* has the strictly higher relevant_card_value; the call returns a boolean.
\* Checked under SpecCmp.
C2_NonBombComparison ==
    (Returned("can_be_played_on") /\ ~ is_bomb_panics(hand) /\ ~ is_bomb(hand)) =>
        /\ ~ panicked
        /\ result = TRUE <=>
              /\ Classified[hand][2] = Classified[other][2]
              /\ Len(hand) = Len(other)
              /\ Classified[hand][4] # None
              /\ Classified[other][4] # None
              /\ Classified[hand][4][1] > Classified[other][4][1]

\* C3: whenever hand_type() is Some type, relevant_card_value() returns Some
\* RegularCardValue and does not panic.  Checked under SpecHand.
C3_RelevantValueOfEveryType ==
    (Returned("relevant_card_value") /\ ~ hand_type_panics(hand)
        /\ hand_type(hand) # None) =>
        /\ ~ panicked
        /\ result # None
        /\ result[1] \in RegularCardValue

Predicates ==
    {"is_valid_quadruple_bomb", "is_valid_straight_bomb", "is_valid_single_card",
     "is_valid_pair", "is_valid_triple", "is_valid_straight",
     "is_valid_straight_of_pairs", "is_valid_full_house"}

\* C4: hand_type() and every classification predicate return a value, they
\* never panic, and is_valid_straight_of_pairs is false for a hand without a
\* numeric card.  Checked under SpecHand.
C4_PredicatesTotal ==
    (pc = "returned" /\ call \in Predicates \cup {"hand_type"}) =>
        /\ ~ panicked
        /\ (call = "is_valid_straight_of_pairs" /\ first_value(hand) = None) =>
              result = FALSE

\* Hand::new([Two of Heart, Two of Clubs, Four of Diamond, Four of Spade,
\* Phoenix])
TwoPairsAndPhoenix ==
    HandNew({RegularCard(Two, Heart), RegularCard(Two, Clubs),
             RegularCard(Four, Diamond), RegularCard(Four, Spade),
             SpecialCard(Phoenix)})

\* C5 as stated: the hand of the Twos, the Fours and the Phoenix is a
\* FullHouse and its relevant_card_value is Two.  Checked under SpecHand.
C5_TwoPairsPhoenixValueTwo ==
    /\ (Returned("hand_type") /\ hand = TwoPairsAndPhoenix) =>
          ~ panicked /\ result = Some("FullHouse")
    /\ (Returned("relevant_card_value") /\ hand = TwoPairsAndPhoenix) =>
          ~ panicked /\ result = Some(Two)

\* C5 amended: the hand of the Twos, the Fours and the Phoenix is a FullHouse
\* and its relevant_card_value is Four, the value of the card at index 3 of
\* the sorted hand.  Checked under SpecHand.
C5_TwoPairsPhoenixValueFour ==
    /\ (Returned("hand_type") /\ hand = TwoPairsAndPhoenix) =>
          ~ panicked /\ result = Some("FullHouse")
    /\ (Returned("relevant_card_value") /\ hand = TwoPairsAndPhoenix) =>
          /\ ~ panicked
          /\ result = Some(Four)
          /\ result = value(hand[4])

C5_Witness == Returned("relevant_card_value") /\ hand = TwoPairsAndPhoenix

\* the number of regular cards of value v in the hand
CountOfValue(h, v) ==
    Cardinality({i \in 1..Len(h) : IsRegular(h[i]) /\ ValueOf(h[i]) = v})

\* three of a kind and a pair of another value, the Phoenix standing in for at
\* most one of the five cards
FullHouseShape(h) ==
    /\ Len(h) = 5
    /\ \A i \in 1..5 : IsRegular(h[i]) \/ h[i] = SpecialCard(Phoenix)
    /\ \E a, b \in RegularCardValue :
          /\ a # b
          /\ \/ num_phoenices(h) = 0 /\ CountOfValue(h, a) = 3 /\ CountOfValue(h, b) = 2
             \/ num_phoenices(h) = 1 /\ CountOfValue(h, a) = 3 /\ CountOfValue(h, b) = 1
             \/ num_phoenices(h) = 1 /\ CountOfValue(h, a) = 2 /\ CountOfValue(h, b) = 2

\* C6: every hand of three of a kind and a pair, the Phoenix replacing at most
\* one card, has the hand_type() FullHouse.  Checked under SpecHand.
C6_FullHouseShapes ==
    (Returned("hand_type") /\ FullHouseShape(hand)) =>
        ~ panicked /\ result = Some("FullHouse")

HasDragonOrDog(h) ==
    \E i \in 1..Len(h) : h[i] = SpecialCard(Dragon) \/ h[i] = SpecialCard(Dog)

\* C7: hand_type() of a hand of more than one card that holds the Dragon or
\* the Dog is None.  Checked under SpecHand.
C7_DragonDogOnlySingle ==
    (Returned("hand_type") /\ Len(hand) > 1 /\ HasDragonOrDog(hand)) =>
        ~ panicked /\ result = None

\* C7, its case: hand_type() was called on the Dog with two more cards
C7_Witness ==
    /\ Returned("hand_type")
    /\ Len(hand) = 3
    /\ hand[1] = SpecialCard(Dog)
    /\ result = None

SuitesOf(h) == {SuiteOf(h[i]) : i \in {j \in 1..Len(h) : IsRegular(h[j])}}

\* at least 5 regular cards of one suite with consecutive values
StraightBombCandidate(h) ==
    /\ Len(h) >= 5
    /\ \A i \in 1..Len(h) : IsRegular(h[i])
    /\ Cardinality(SuitesOf(h)) = 1
    /\ \A i \in 1..(Len(h) - 1) : ValueOf(h[i + 1]) = ValueOf(h[i]) + 1

\* C8: hand_type() of a straight-bomb candidate is StraightBomb, and a hand
\* whose hand_type() is Straight holds the Phoenix, the One or cards of at
\* least two suites.  Checked under SpecStraight.
C8_StraightBombNeverStraight ==
    Returned("hand_type") =>
        /\ ~ panicked
        /\ StraightBombCandidate(hand) => result = Some("StraightBomb")
        /\ result = Some("Straight") =>
              \/ \E i \in 1..Len(hand) : hand[i] = SpecialCard(Phoenix)
              \/ \E i \in 1..Len(hand) : hand[i] = SpecialCard(One)
              \/ Cardinality(SuitesOf(hand)) >= 2

\* C8, its case: hand_type() was called on a straight-bomb candidate
C8_Witness ==
    /\ Returned("hand_type")
    /\ StraightBombCandidate(hand)
    /\ result = Some("StraightBomb")

\* C9: the single-card relation called with the same special card on both
\* sides panics.  Checked under SpecCard.
C9_EqualSpecialCardsPanic ==
    (Returned("can_be_played_on_top_of_single_card")
        /\ ~ IsRegular(selfCard) /\ selfCard = otherCard) => panicked

RECURSIVE Concat(_)
Concat(seqs) == IF seqs = <<>> THEN <<>> ELSE Head(seqs) \o Concat(Tail(seqs))

Ascending(v) == \A i \in 1..(Len(v) - 1) : CardLess(v[i], v[i + 1])

\* C10: the deck of Deck::new holds every card exactly once, and after k <= 4
\* calls of deal() every PlayerHand has 14 cards in ascending order, the deck
\* holds 56 - 14 k cards, and the hands and the deck together hold every card
\* exactly once.  Checked under SpecDeck.
C10_DealPartitionsDeck ==
    LET all == deck \o Concat(dealt)
    IN  /\ Len(dealt) <= NUM_PLAYERS
        /\ \A k \in 1..Len(dealt) :
              Len(dealt[k]) = NUM_CARDS_PER_PLAYER /\ Ascending(dealt[k])
        /\ Len(deck) = Cardinality(AllCards) - NUM_CARDS_PER_PLAYER * Len(dealt)
        /\ Cardinality(AllCards) = 56
        /\ Len(all) = Cardinality(AllCards)
        /\ \A c \in AllCards : Cardinality({i \in 1..Len(all) : all[i] = c}) = 1

\* C10, its case: four hands were dealt
C10_Witness == Len(dealt) = NUM_PLAYERS /\ Len(deck) = 0 /\ ~ panicked

\* C11: the single-card relation is asymmetric on distinct cards: when the
\* call on (self, other) returns true, the call on (other, self) returns
\* false; and for a regular card and a special card the result is the
\* negation of the result for the two cards exchanged.  Checked under
\* SpecCard.
C11_SingleCardAsymmetric ==
    (Returned("can_be_played_on_top_of_single_card") /\ selfCard # otherCard) =>
        /\ ~ panicked
        /\ ~ can_be_played_on_top_of_single_card_panics(otherCard, selfCard)
        /\ result = TRUE =>
              can_be_played_on_top_of_single_card(otherCard, selfCard) = FALSE
        /\ (IsRegular(selfCard) /\ ~ IsRegular(otherCard)) =>
              result = ~ can_be_played_on_top_of_single_card(otherCard, selfCard)

\* the numeric values of the cards of the hand that have one
NumericValuesOf(h) ==
    {numeric_value(h[i])[1] : i \in {j \in 1..Len(h) : numeric_value(h[j]) # None}}

NumNumeric(h) == Cardinality({i \in 1..Len(h) : numeric_value(h[i]) # None})

MaxOf(S) == CHOOSE x \in S : \A y \in S : y <= x

MinOf(S) == CHOOSE x \in S : \A y \in S : x <= y

\* at least 5 cards, no numeric value twice, and the values from the lowest
\* to the highest are no more than the cards of the hand
StraightShape(h) ==
    /\ Len(h) >= 5
    /\ NumericValuesOf(h) # {}
    /\ Cardinality(NumericValuesOf(h)) = NumNumeric(h)
    /\ MaxOf(NumericValuesOf(h)) - MinOf(NumericValuesOf(h)) + 1 <= Len(h)

\* the same with the gaps between consecutive numeric values summed up
StraightShapeByGaps(h) ==
    /\ Len(h) >= 5
    /\ NumericValuesOf(h) # {}
    /\ Cardinality(NumericValuesOf(h)) = NumNumeric(h)
    /\ MaxOf(NumericValuesOf(h)) - MinOf(NumericValuesOf(h)) - (NumNumeric(h) - 1)
          <= num_phoenices(h)

\* Hand::new([H2, H3, H4, H5, H6])
HeartsTwoToSix ==
    HandNew({RegularCard(v, Heart) : v \in {Two, Three, Four, Five, Six}})

\* Hand::new([H2, H3, H4, H5, H7])
HeartsTwoToFiveAndSeven ==
    HandNew({RegularCard(v, Heart) : v \in {Two, Three, Four, Five, Seven}})

\* Hand::new([H2, H3, H4, H6, Phoenix])
HeartsWithGapAndPhoenix ==
    HandNew({RegularCard(v, Heart) : v \in {Two, Three, Four, Six}}
                \cup {SpecialCard(Phoenix)})

\* C12: for a hand without the Dragon and the Dog is_valid_straight() is true
\* exactly when the hand has at least 5 cards, no numeric value twice and
\* gaps that the Phoenixes fill (highest - lowest + 1 <= number of cards);
\* H2..H6 is a straight of value Six, H2..H5 with H7 is no straight and has no
\* hand_type(), H2 H3 H4 H6 with the Phoenix is a Straight of value Six.
\* Checked under SpecStraight.
C12_StraightCharacterised ==
    /\ (Returned("is_valid_straight") /\ ~ HasDragonOrDog(hand)) =>
          /\ ~ panicked
          /\ result = TRUE <=> StraightShape(hand)
          /\ result = TRUE <=> StraightShapeByGaps(hand)
    /\ (Returned("is_valid_straight") /\ hand = HeartsTwoToSix) => result = TRUE
    /\ (Returned("relevant_card_value") /\ hand = HeartsTwoToSix) =>
          ~ panicked /\ result = Some(Six)
    /\ (Returned("is_valid_straight") /\ hand = HeartsTwoToFiveAndSeven) =>
          result = FALSE
    /\ (Returned("hand_type") /\ hand = HeartsTwoToFiveAndSeven) =>
          ~ panicked /\ result = None
    /\ (Returned("hand_type") /\ hand = HeartsWithGapAndPhoenix) =>
          ~ panicked /\ result = Some("Straight")
    /\ (Returned("relevant_card_value") /\ hand = HeartsWithGapAndPhoenix) =>
          ~ panicked /\ result = Some(Six)

\* C12, its case: is_valid_straight() was called on H2 H3 H4 H6 with the
\* Phoenix, whose gap at Five the Phoenix fills
C12_Witness ==
    /\ Returned("is_valid_straight")
    /\ hand = HeartsWithGapAndPhoenix
    /\ result = TRUE

IsFullHouse(h) ==
    Len(h) = 5 /\ ~ hand_type_panics(h) /\ hand_type(h) = Some("FullHouse")

\* a full house of the Phoenix and two pairs of regular cards
PhoenixAndTwoPairs(h) ==
    /\ IsFullHouse(h)
    /\ num_phoenices(h) = 1
    /\ \E a, b \in RegularCardValue :
          a # b /\ CountOfValue(h, a) = 2 /\ CountOfValue(h, b) = 2

\* relevant_card_value() of a full house in which three regular cards hold
\* one value is that value
TripleOfRegularCardsRead ==
    (Returned("relevant_card_value") /\ IsFullHouse(hand)) =>
        /\ ~ panicked
        /\ \A t \in RegularCardValue :
              CountOfValue(hand, t) = 3 => result = Some(t)

\* the sorted hand of a full house starts with a regular card or the Phoenix
FullHouseFirstCard ==
    (Returned("hand_type") /\ ~ panicked /\ result = Some("FullHouse")) =>
        IsRegular(hand[1]) \/ hand[1] = SpecialCard(Phoenix)

\* C13 as stated: relevant_card_value() of a full house is the value that
\* three regular cards hold; in a full house of the Phoenix and two cards of
\* value t (and a pair) the value read at index 3 is t; a full house starts
\* with a regular card or the Phoenix.  Checked under SpecHand.
C13_TripleValueRead ==
    /\ TripleOfRegularCardsRead
    /\ FullHouseFirstCard
    /\ (Returned("relevant_card_value") /\ PhoenixAndTwoPairs(hand)) =>
          /\ ~ panicked
          /\ \A t \in RegularCardValue :
                CountOfValue(hand, t) = 2 => result = Some(t)

\* C13 amended: in a full house of the Phoenix and two pairs the value read
\* at index 3 is the value of the higher pair, which the Phoenix joins; the
\* rest as stated.  Checked under SpecHand.
C13_TripleValueReadHigherPair ==
    /\ TripleOfRegularCardsRead
    /\ FullHouseFirstCard
    /\ (Returned("relevant_card_value") /\ PhoenixAndTwoPairs(hand)) =>
          /\ ~ panicked
          /\ result = value(hand[4])
          /\ \A t \in RegularCardValue :
                CountOfValue(hand, t) = 2 => result[1] >= t

\* C13, its case: relevant_card_value() was called on a full house of the
\* Phoenix and two pairs, and returned the value of the higher pair
C13_Witness ==
    /\ Returned("relevant_card_value")
    /\ PhoenixAndTwoPairs(hand)
    /\ ~ panicked
    /\ result = value(hand[5])
    /\ result # value(hand[2])

\* C14: a hand whose hand_type() is StraightOfPairs has an even number of
\* cards, at least 4.  Checked under SpecHand.
C14_StraightOfPairsEvenLength ==
    (Returned("hand_type") /\ ~ panicked /\ result = Some("StraightOfPairs")) =>
        /\ Len(hand) % 2 = 0
        /\ Len(hand) >= 4

\* C15: can_be_played_on of main.rs returns what can_be_played_on of hand.rs
\* returns for the same two hands, and panics when it panics; a hand that is
\* not a bomb is not playable on a bomb nor on a hand of another
\* hand_type().  Checked under SpecMain.
C15_ComparatorCopiesAgree ==
    Returned("main::can_be_played_on") =>
        /\ panicked = can_be_played_on_panics(hand, other)
        /\ ~ panicked => result = can_be_played_on(hand, other)
        /\ (~ panicked /\ ~ is_bomb(hand)
              /\ (is_bomb(other) \/ Classified[hand][2] # Classified[other][2])) =>
              result = FALSE

\* C16: deal() called on a deck of fewer than 14 cards panics, returns no
\* PlayerHand and leaves the deck and the hands dealt as they are; a
\* PlayerHand that deal() returns has 14 cards.  Checked under SpecDeck.
C16_DealOnShortDeckPanics ==
    [][/\ Len(deck) < NUM_CARDS_PER_PLAYER =>
             /\ panicked'
             /\ returned' = <<"deal", "panic">>
             /\ deck' = deck
             /\ dealt' = dealt
       /\ ~ panicked' =>
             /\ Len(returned'[2]) = NUM_CARDS_PER_PLAYER
             /\ Len(deck') = Len(deck) - NUM_CARDS_PER_PLAYER]_vars

\* C16, its case: the fifth deal() on the deck of Deck::new, then empty, has
\* panicked
C16_Witness ==
    /\ pc = "panicked"
    /\ panicked
    /\ call = "deal"
    /\ result = "panic"
    /\ Len(dealt) = NUM_PLAYERS
    /\ Len(deck) = 0

====
